---- MODULE Spec2Model ----
(***************************************************************************)
(* A model of the marketplace representative agent:                        *)
(*   src/src/agents/reward_estimator.py  (reward estimation)               *)
(*   src/src/solve_instances.py          (instance resolution, responder,  *)
(*                                        proposal listing, polling cycle) *)
(*                                                                         *)
(* Python values.  None is the record None; a raised exception is a record *)
(* of kind "raise"; a float is Float(v) with v counted in tenths (Float(5) *)
(* is 0.5) or the value NaN.  A string is Str(s) with s a sequence of      *)
(* tokens, each token standing for a run of characters, so that joining,   *)
(* stripping and the substring tests of the source are computed and not    *)
(* assumed.                                                                *)
(*                                                                         *)
(* reward_estimator.py binds the names _build_prompt and estimate_reward   *)
(* twice (lines 6 and 63, then lines 99 and 114).  A Python module keeps   *)
(* the last binding of a name, so every importer of the module calls the   *)
(* definitions of lines 99 and 114; those are the ones modelled here.      *)
(***************************************************************************)
EXTENDS Integers, Sequences, FiniteSets, TLC

VARIABLES
    now,             \* wall clock, in hours
    cache,           \* Response Cache: set of CacheEntry records
    got,             \* result of the last cache lookup
    er_call,         \* arguments of the last estimate_reward call
    er_ret,          \* what that call returned or raised
    er_prompt,       \* the user prompt that call sent to the completion provider
    er_completion,   \* how the completion provider answered that call
    provider_calls,  \* number of completion calls made by estimate_reward
    pc,              \* solve_instances_handler: "idle", "loop", "done", "raised"
    listing,         \* how the marketplace answered the cycle's GET /v1/proposals/
    awarded_proposals, \* what get_awarded_proposals returned to the handler
    idx,             \* position of the loop of line 246 in awarded_proposals
    outcomes,        \* how the iteration of each proposal processed so far ended
    sent,            \* chat messages the marketplace accepted, in order
    step,            \* what the last iteration resolved, called and produced
    rs_in,           \* _get_instance_to_solve: the responses it is given
    rs_out,          \* _get_instance_to_solve: its result
    rs_chat_fetched, \* _get_instance_to_solve: whether it requested the chat
    gp_in,           \* get_awarded_proposals: the listing response it is given
    gp_out,          \* get_awarded_proposals: its result
    si_in,           \* _solve_instance: its argument and its collaborators' answers
    si_out           \* _solve_instance: its result and the collaborators it called

reward_vars == <<cache, got, er_call, er_ret, er_prompt, er_completion, provider_calls>>
handler_vars == <<pc, listing, awarded_proposals, idx, outcomes, sent, step>>
pure_vars == <<rs_in, rs_out, rs_chat_fetched, gp_in, gp_out, si_in, si_out>>
vars == <<now, reward_vars, handler_vars, pure_vars>>

(***************************************************************************)
(* Bounds of the model.                                                    *)
(***************************************************************************)
MaxTime == 4
MaxCalls == 2
MaxProposals == 2
MaxTail == 3

(***************************************************************************)
(* Python values.                                                          *)
(***************************************************************************)
None == [kind |-> "None"]
Str(s) == [kind |-> "str", s |-> s]
Float(v) == [kind |-> "float", v |-> v]
NaN == [kind |-> "float_nan"]
Raise(exc) == [kind |-> "raise", exc |-> exc]
Return(v) == [kind |-> "return", value |-> v]

Whitespace == {" ", "\n"}

RECURSIVE lstrip(_)
lstrip(s) ==
    IF s # <<>> /\ Head(s) \in Whitespace THEN lstrip(Tail(s)) ELSE s

RECURSIVE rstrip(_)
rstrip(s) ==
    IF s # <<>> /\ s[Len(s)] \in Whitespace
    THEN rstrip(SubSeq(s, 1, Len(s) - 1))
    ELSE s

\* str.strip(): leading and trailing whitespace removed
strip(x) == Str(rstrip(lstrip(x.s)))

\* float(x) of a string: the value, or ValueError
float(x) ==
    LET s == rstrip(lstrip(x.s))
    IN  IF Len(s) # 1 THEN Raise("ValueError")
        ELSE CASE s[1] = "0.5"  -> Return(Float(5))
               [] s[1] = "0.7"  -> Return(Float(7))
               [] s[1] = "2.5"  -> Return(Float(25))
               [] s[1] = "-1.0" -> Return(Float(-10))
               [] s[1] = "nan"  -> Return(NaN)
               [] OTHER         -> Raise("ValueError")

\* truth value of an optional string
Truthy(x) == x # None /\ x # Str(<<>>)

(***************************************************************************)
(* Response Cache (src/agents/prompt_cache.py is not among the sources;    *)
(* modelled from the design's sections 3 and 4.1).                         *)
(***************************************************************************)
TTL == 2

CacheEntry(p, m, r, t) == [prompt |-> p, model |-> m, response |-> r, created_at |-> t]

Expired(e, t) == t - e.created_at >= TTL

cache_cleanup_expired(c, t) == {e \in c : ~(t - e.created_at > TTL)}

cache_get_unchecked(c, p, m, t) ==
    IF \E e \in c : e.prompt = p /\ e.model = m
    THEN LET e == CHOOSE x \in c : x.prompt = p /\ x.model = m
         IN  [kind |-> "hit", prompt |-> p, response |-> e.response,
              created_at |-> e.created_at, at |-> t]
    ELSE [kind |-> "miss", prompt |-> p, at |-> t]

cache_get(c, p, m, t) ==
    IF \E e \in c : e.prompt = p /\ e.model = m /\ ~Expired(e, t)
    THEN LET e == CHOOSE x \in c : x.prompt = p /\ x.model = m
         IN  [kind |-> "hit", prompt |-> p, response |-> e.response,
              created_at |-> e.created_at, at |-> t]
    ELSE [kind |-> "miss", prompt |-> p, at |-> t]

cache_store(c, p, m, r, t) ==
    {e \in c : ~(e.prompt = p /\ e.model = m)} \cup {CacheEntry(p, m, r, t)}

cache_clear(c) == {}

(***************************************************************************)
(* reward_estimator.py, the bindings in force after import.                *)
(***************************************************************************)
\* lines 99-111
_build_prompt(background, chat_messages) ==
    Str(<<"Based on the following ... Return only a numeric value.\n\n",
          "Background:\n">> \o background.s \o <<"\n\n">>
        \o (IF Truthy(chat_messages)
            THEN <<"Chat Messages:\n">> \o chat_messages.s \o <<"\n\n">>
            ELSE <<>>))

\* what openai.chat.completions.create can do: raise, or answer with a
\* message whose content is a string or None
Completion(content) == [kind |-> "completion", content |-> content]

\* a variant of the body that stores the provider's answer before parsing it
estimate_reward_body_caching(c, t, prompt, completion) ==
    IF completion.kind = "raise"
    THEN [ret |-> Return(None), cache |-> c]
    ELSE IF completion.content = None
    THEN [ret |-> Return(None), cache |-> c]
    ELSE LET reward == float(strip(completion.content))
             stored == cache_store(c, prompt, "gpt-4o", strip(completion.content), t)
         IN  IF reward.kind = "raise"
             THEN [ret |-> Return(None), cache |-> stored]
             ELSE [ret |-> reward, cache |-> stored]

\* lines 116-143: the body of estimate_reward, given the cache, the time,
\* the prompt and the outcome of the completion call.  It yields what the
\* call returns and the cache it leaves.
estimate_reward_body(c, t, prompt, completion) ==
    IF completion.kind = "raise"
    THEN [ret |-> Return(None), cache |-> c]             \* lines 141-143
    ELSE IF completion.content = None                    \* None.strip()
    THEN [ret |-> Return(None), cache |-> c]             \* lines 141-143
    ELSE LET reward == float(strip(completion.content))  \* line 134
         IN  IF reward.kind = "raise"
             THEN [ret |-> Return(None), cache |-> c]    \* lines 137-139
             ELSE [ret |-> reward, cache |-> c]          \* line 136

(***************************************************************************)
(* Inputs of the reward estimator.                                         *)
(***************************************************************************)
Backgrounds == {Str(<<"fix bug">>)}
ChatArgs == {None, Str(<<>>), Str(<<"provider: done">>)}
Contents ==
    {None} \cup
    {Str(t) : t \in {<<"0.5">>, <<" ", "0.7", "\n">>, <<"2.5">>, <<"-1.0">>,
                     <<"nan">>, <<"abc">>, <<>>, <<"0.5", " ", "USD">>}}
Completions == {Raise("APIError")} \cup {Completion(c) : c \in Contents}
CachedTexts == {Str(<<"0.5">>), Str(<<"abc">>)}
Prompts == {_build_prompt(b, c) : b \in Backgrounds, c \in ChatArgs}
NoCall == [kind |-> "nocall"]
NoGet == [kind |-> "noget"]

\* time passes
Tick ==
    /\ now < MaxTime
    /\ now' = now + 1
    /\ UNCHANGED <<reward_vars, handler_vars, pure_vars>>

\* PromptCache.store(prompt, model, response)
CacheStore ==
    \E p \in Prompts, r \in CachedTexts :
        /\ cache' = cache_store(cache, p, "gpt-4o", r, now)
        /\ UNCHANGED <<now, got, er_call, er_ret, er_prompt, er_completion, provider_calls,
                        handler_vars, pure_vars>>

\* PromptCache.get(prompt, model)
CacheGet ==
    \E p \in Prompts :
        /\ got' = cache_get(cache, p, "gpt-4o", now)
        /\ UNCHANGED <<now, cache, er_call, er_ret, er_prompt, er_completion, provider_calls,
                        handler_vars, pure_vars>>

\* PromptCache.cleanup_expired()
CacheCleanupExpired ==
    /\ cache' = cache_cleanup_expired(cache, now)
    /\ UNCHANGED <<now, got, er_call, er_ret, er_prompt, er_completion, provider_calls,
                        handler_vars, pure_vars>>

\* PromptCache.clear()
CacheClear ==
    /\ cache' = cache_clear(cache)
    /\ UNCHANGED <<now, got, er_call, er_ret, er_prompt, er_completion, provider_calls,
                        handler_vars, pure_vars>>

\* A call estimate_reward(background, chat_messages) or, with max_given,
\* estimate_reward(background, chat_messages, max_value).  The function bound
\* at line 114 takes two parameters: a third argument raises TypeError at
\* the call, before the body runs.
estimate_reward(background, chat_messages, max_given, completion) ==
    /\ er_call.n < MaxCalls
    /\ er_call' = [kind |-> "call", n |-> er_call.n + 1,
                   background |-> background, chat_messages |-> chat_messages,
                   max_given |-> max_given, at |-> now]
    /\ IF max_given
       THEN /\ er_ret' = Raise("TypeError")
            /\ er_completion' = NoCall
            /\ UNCHANGED <<cache, er_prompt, provider_calls>>
       ELSE LET prompt == _build_prompt(background, chat_messages)
                r == estimate_reward_body(cache, now, prompt, completion)
            IN  /\ er_prompt' = prompt
                /\ er_completion' = completion
                /\ provider_calls' = provider_calls + 1
                /\ er_ret' = r.ret
                /\ cache' = r.cache
    /\ UNCHANGED <<now, got, handler_vars, pure_vars>>

EstimateReward ==
    \E b \in Backgrounds, c \in ChatArgs, g \in BOOLEAN, k \in Completions :
        estimate_reward(b, c, g, k)

(***************************************************************************)
(* solve_instances.py: values exchanged with the marketplace.              *)
(*                                                                         *)
(* A JSON object is Dict(r), r a record whose fields are the keys present  *)
(* (EmptyDict has none); a JSON array is List(items).  An HTTP call either *)
(* raises or yields Http(code, body); response.json() yields the body, or  *)
(* raises when the body is NotJson.                                        *)
(***************************************************************************)
Dict(r) == [kind |-> "dict", d |-> r]
EmptyDict == [kind |-> "dict"]
List(items) == [kind |-> "list", items |-> items]
NotJson == [kind |-> "notjson"]
Http(code, body) == [kind |-> "http", code |-> code, body |-> body]

Keys(x) == IF "d" \in DOMAIN x THEN DOMAIN x.d ELSE {}

\* settings.market_resolved_instance_code, settings.market_awarded_proposal_code
market_resolved_instance_code == "resolved"
market_awarded_proposal_code == "awarded"

\* Response.raise_for_status(): every status that is not 2xx raises
raise_for_status(response) == ~(200 <= response.code /\ response.code < 300)

\* Response.json()
json(response) ==
    IF response.body = NotJson THEN Raise("JSONDecodeError") ELSE Return(response.body)

\* "status" falsy: key missing, or the empty string
StatusFalsy(instance) == "status" \notin Keys(instance) \/ instance.d.status = ""

(***************************************************************************)
(* sorted(chat, key=lambda m: m["timestamp"]): a stable sort.              *)
(***************************************************************************)
\* a variant that puts a message before the earlier ones of equal timestamp
RECURSIVE insert_before_equal(_, _)
insert_before_equal(m, sorted_prefix) ==
    IF sorted_prefix = <<>> THEN <<m>>
    ELSE LET last == sorted_prefix[Len(sorted_prefix)]
         IN  IF last.timestamp < m.timestamp
             THEN Append(sorted_prefix, m)
             ELSE Append(insert_before_equal(m, SubSeq(sorted_prefix, 1, Len(sorted_prefix) - 1)),
                         last)

\* m placed after every message of the sorted prefix whose timestamp is not
\* greater than its own
RECURSIVE insert_sorted(_, _)
insert_sorted(m, sorted_prefix) ==
    IF sorted_prefix = <<>> THEN <<m>>
    ELSE LET last == sorted_prefix[Len(sorted_prefix)]
         IN  IF last.timestamp <= m.timestamp
             THEN Append(sorted_prefix, m)
             ELSE Append(insert_sorted(m, SubSeq(sorted_prefix, 1, Len(sorted_prefix) - 1)),
                         last)

RECURSIVE sorted(_)
sorted(items) ==
    IF items = <<>> THEN <<>>
    ELSE insert_sorted(items[Len(items)], sorted(SubSeq(items, 1, Len(items) - 1)))

\* f"{message['sender']}: {message['message']}"
format_message(m) == <<m.sender, ": ">> \o m.message

\* "\n\n".join(parts)
RECURSIVE join(_, _)
join(sep, parts) ==
    IF parts = <<>> THEN <<>>
    ELSE IF Len(parts) = 1 THEN parts[1]
    ELSE parts[1] \o <<sep>> \o join(sep, Tail(parts))

\* the back-and-forth ceiling of line 56
MaxTurns == 15

\* a variant of the gate that lets a transcript at the ceiling through
provider_needs_response_inclusive(sorted_messages) ==
    sorted_messages[Len(sorted_messages)].sender = "provider"
    /\ Len(sorted_messages) <= MaxTurns

\* lines 54-57
provider_needs_response(sorted_messages) ==
    sorted_messages[Len(sorted_messages)].sender = "provider"
    /\ Len(sorted_messages) < MaxTurns

InstanceToSolve(instance, messages_history, needs) ==
    [kind |-> "InstanceToSolve", instance |-> instance,
     messages_history |-> messages_history, provider_needs_response |-> needs]

MessageKeys == {"sender", "message", "timestamp"}

\* lines 42-67: what the chat payload gives, once the instance is accepted
resolve_chat(instance, chat_response) ==
    IF chat_response.kind = "raise" THEN None                      \* line 68
    ELSE LET j == json(chat_response)
         IN  IF j.kind = "raise" THEN None                         \* line 68
             ELSE LET chat == j.value
                  IN  IF chat.kind = "dict" /\ "detail" \in Keys(chat)
                         /\ chat.d.detail # ""
                      THEN None                                    \* line 48
                      ELSE IF chat = EmptyDict \/ chat = List(<<>>)
                      THEN InstanceToSolve(instance, None, FALSE)  \* line 51
                      ELSE IF chat.kind = "dict"
                      THEN None          \* iterating a dict gives its keys: TypeError
                      ELSE IF \E i \in 1..Len(chat.items) :
                                  ~(MessageKeys \subseteq DOMAIN chat.items[i])
                      THEN None                                    \* KeyError
                      ELSE LET sorted_messages == sorted(chat.items)
                           IN  InstanceToSolve(
                                   instance,
                                   Str(join("\n\n",
                                            [i \in 1..Len(sorted_messages) |->
                                                format_message(sorted_messages[i])])),
                                   provider_needs_response(sorted_messages))

\* a variant of the resolver that accepts an instance of any status
_get_instance_to_solve_any_status(instance_response, chat_response) ==
    IF instance_response.kind = "raise"
    THEN [ret |-> None, chat_fetched |-> FALSE]
    ELSE LET j == json(instance_response)
         IN  IF j.kind = "raise" THEN [ret |-> None, chat_fetched |-> FALSE]
             ELSE IF j.value.kind # "dict"
             THEN [ret |-> None, chat_fetched |-> FALSE]
             ELSE [ret |-> resolve_chat(j.value, chat_response),
                   chat_fetched |-> TRUE]

\* lines 26-69.  The result is the value returned and whether the chat
\* endpoint was called.
_get_instance_to_solve(instance_response, chat_response) ==
    IF instance_response.kind = "raise"
    THEN [ret |-> None, chat_fetched |-> FALSE]
    ELSE LET j == json(instance_response)
         IN  IF j.kind = "raise" THEN [ret |-> None, chat_fetched |-> FALSE]
             ELSE IF j.value.kind # "dict"      \* list.get: AttributeError
             THEN [ret |-> None, chat_fetched |-> FALSE]
             ELSE IF StatusFalsy(j.value)
                     \/ j.value.d.status # market_resolved_instance_code
             THEN [ret |-> None, chat_fetched |-> FALSE]           \* line 40
             ELSE [ret |-> resolve_chat(j.value, chat_response),
                   chat_fetched |-> TRUE]

(***************************************************************************)
(* The code-review responder.  Tokens and the substrings they hold.        *)
(***************************************************************************)
PR_URL == "https://github.com/o/r/pull/7"
ISSUE_URL == "https://github.com/o/r/issues/3"
FORK_SPAN == "<span title=\"agentmarketbot/r:fix\""
SENTINEL == "NO_RESPONSE_NEEDED"

\* needle in text, for the needles the source looks for
Contains(text, needle) ==
    \E i \in 1..Len(text) :
        CASE needle = "github.com" -> text[i] \in {"github.com", PR_URL, ISSUE_URL}
          [] needle = "/pull/"     -> text[i] \in {"/pull/", PR_URL}
          [] needle = SENTINEL     -> text[i] \in {SENTINEL, "NO_RESPONSE_NEEDED."}
          [] OTHER                 -> text[i] = needle

\* re.search(r"https://github\.com/[^/]+/[^/]+/pull/\d+", text) finds a match
SearchPrLink(text) == \E i \in 1..Len(text) : text[i] = PR_URL
\* re.search(r"https://github\.com/[^/]+/[^/]+/issues/\d+", text) finds a match
SearchIssueLink(text) == \E i \in 1..Len(text) : text[i] = ISSUE_URL
\* re.search(r'<span title="agentmarketbot/([^:]+):([^"]+)"', text) finds a match
SearchForkInfo(text) == \E i \in 1..Len(text) : text[i] = FORK_SPAN

\* text in "NO_RESPONSE_NEEDED": the text is a substring of the sentinel
SubstringOfSentinel(text) ==
    \/ text = <<>>
    \/ Len(text) = 1 /\ text[1] \in {SENTINEL, "NO", "NO_RESPONSE", "NEEDED"}

\* lines 72-112; response is the stripped agent response, completion the
\* outcome of the de-duplication completion call
_clean_response(response, completion) ==
    IF completion.kind = "raise" THEN response                    \* line 112
    ELSE IF completion.content = None THEN response               \* None.strip()
    ELSE strip(completion.content)                                \* line 108

Unbound == [kind |-> "unbound"]
Bound(v) == [kind |-> "bound", matched |-> v]

\* lines 130-162: the locals files_url, issue_link and repo_info after the
\* enrichment step; each is Unbound when no assignment to it ran
Enrichment(messages_history, pr_response) ==
    IF ~Truthy(messages_history)
    THEN [files_url |-> Unbound, issue_link |-> Unbound, repo_info |-> Unbound,
          pr_fetched |-> FALSE]
    ELSE IF ~(Contains(messages_history.s, "github.com")
              /\ Contains(messages_history.s, "/pull/"))
    THEN [files_url |-> Unbound, issue_link |-> Unbound, repo_info |-> Unbound,
          pr_fetched |-> FALSE]
    ELSE IF ~SearchPrLink(messages_history.s)
    THEN [files_url |-> Unbound, issue_link |-> Unbound, repo_info |-> Unbound,
          pr_fetched |-> FALSE]
    ELSE IF pr_response.kind = "raise"                             \* lines 160-162
    THEN [files_url |-> Bound(TRUE), issue_link |-> Unbound, repo_info |-> Bound(FALSE),
          pr_fetched |-> TRUE]
    ELSE IF pr_response.code # 200
    THEN [files_url |-> Bound(TRUE), issue_link |-> Unbound, repo_info |-> Unbound,
          pr_fetched |-> TRUE]
    ELSE [files_url |-> Bound(TRUE),
          issue_link |-> Bound(SearchIssueLink(pr_response.body.s)),
          repo_info |-> Bound(SearchForkInfo(pr_response.body.s)),
          pr_fetched |-> TRUE]

\* a variant of the delegation without the sentinel test of line 174
Delegate_no_sentinel_test(messages_history, agent_result, clean_completion) ==
    IF agent_result.kind = "raise"
    THEN [ret |-> Return(None), agent_called |-> TRUE, clean_called |-> FALSE]
    ELSE IF ~Truthy(agent_result)
    THEN [ret |-> Return(None), agent_called |-> TRUE, clean_called |-> FALSE]
    ELSE LET cleaned_response == _clean_response(strip(agent_result), clean_completion)
         IN  IF SubstringOfSentinel(cleaned_response.s)
             THEN [ret |-> Return(None), agent_called |-> TRUE, clean_called |-> TRUE]
             ELSE [ret |-> Return(cleaned_response), agent_called |-> TRUE,
                   clean_called |-> TRUE]

\* lines 168-194: the delegation to the agent and the clean-up, once the
\* command is built
Delegate(messages_history, agent_result, clean_completion) ==
    IF agent_result.kind = "raise"
    THEN [ret |-> Return(None), agent_called |-> TRUE, clean_called |-> FALSE]
    ELSE IF ~Truthy(agent_result)                                  \* line 170
    THEN [ret |-> Return(None), agent_called |-> TRUE, clean_called |-> FALSE]
    ELSE IF Contains(agent_result.s, SENTINEL)                     \* line 174
    THEN [ret |-> Return(None), agent_called |-> TRUE, clean_called |-> FALSE]
    ELSE LET cleaned_response == _clean_response(strip(agent_result), clean_completion)
         IN  IF SubstringOfSentinel(cleaned_response.s)            \* line 181
             THEN [ret |-> Return(None), agent_called |-> TRUE, clean_called |-> TRUE]
             ELSE [ret |-> Return(cleaned_response), agent_called |-> TRUE,
                   clean_called |-> TRUE]

\* lines 115-194.  The result is what the call returns or raises, and which
\* of the collaborators it called.
_solve_instance(instance_to_solve, pr_response, agent_result, clean_completion) ==
    IF "id" \notin Keys(instance_to_solve.instance)                \* line 118
    THEN [ret |-> Raise("KeyError"), agent_called |-> FALSE, clean_called |-> FALSE]
    ELSE LET e == Enrichment(instance_to_solve.messages_history, pr_response)
         IN  IF e.files_url = Unbound                              \* line 165
             THEN [ret |-> Raise("UnboundLocalError"), agent_called |-> FALSE,
                   clean_called |-> FALSE]
             ELSE IF e.issue_link = Unbound                        \* line 166
             THEN [ret |-> Raise("UnboundLocalError"), agent_called |-> FALSE,
                   clean_called |-> FALSE]
             ELSE IF e.issue_link = Bound(FALSE)                   \* None.group(0)
             THEN [ret |-> Raise("AttributeError"), agent_called |-> FALSE,
                   clean_called |-> FALSE]
             ELSE Delegate(instance_to_solve.messages_history, agent_result,
                           clean_completion)

(***************************************************************************)
(* Listing the proposals and sending a message.                            *)
(***************************************************************************)
\* timedelta(days=1), in hours
HoursPerDay == 24

IsoDate(h, aware) == [kind |-> "isodate", h |-> h, aware |-> aware]

\* datetime.fromisoformat(x)
fromisoformat(x) ==
    IF x.kind = "isodate" THEN Return([kind |-> "datetime", h |-> x.h, aware |-> x.aware])
    ELSE IF x.kind = "str" THEN Raise("ValueError")
    ELSE Raise("TypeError")

\* a variant of the filter that ignores the creation date
Qualifies_any_age(p, one_day_ago) ==
    IF "status" \notin DOMAIN p THEN Raise("KeyError")
    ELSE IF p.status # market_awarded_proposal_code THEN Return(FALSE)
    ELSE IF "creation_date" \notin DOMAIN p THEN Raise("KeyError")
    ELSE LET d == fromisoformat(p.creation_date)
         IN  IF d.kind = "raise" THEN d
             ELSE IF d.value.aware THEN Raise("TypeError")
             ELSE Return(TRUE)

\* the filter of lines 214-215 on one proposal: TRUE, FALSE, or a raise
Qualifies(p, one_day_ago) ==
    IF "status" \notin DOMAIN p THEN Raise("KeyError")
    ELSE IF p.status # market_awarded_proposal_code THEN Return(FALSE)
    ELSE IF "creation_date" \notin DOMAIN p THEN Raise("KeyError")
    ELSE LET d == fromisoformat(p.creation_date)
         IN  IF d.kind = "raise" THEN d
             ELSE IF d.value.aware THEN Raise("TypeError")
             ELSE Return(d.value.h > one_day_ago)

SelectQualifying(all_proposals, one_day_ago) ==
    SelectSeq(all_proposals, LAMBDA p : Qualifies(p, one_day_ago) = Return(TRUE))

\* a variant of the listing that leaves out the proposals it cannot filter
get_awarded_proposals_skipping(response, current_time) ==
    IF response.kind = "raise" THEN None
    ELSE IF raise_for_status(response) THEN None
    ELSE LET j == json(response)
             one_day_ago == current_time - HoursPerDay
         IN  IF j.kind = "raise" THEN None
             ELSE IF j.value = EmptyDict THEN List(<<>>)
             ELSE IF j.value.kind # "list" THEN None
             ELSE List(SelectQualifying(j.value.items, one_day_ago))

\* lines 197-219; current_time is datetime.utcnow(), in hours
get_awarded_proposals(response, current_time) ==
    IF response.kind = "raise" THEN None
    ELSE IF raise_for_status(response) THEN None
    ELSE LET j == json(response)
             one_day_ago == current_time - HoursPerDay
         IN  IF j.kind = "raise" THEN None
             ELSE IF j.value = EmptyDict THEN List(<<>>)
             ELSE IF j.value.kind # "list" THEN None
             ELSE IF \E i \in 1..Len(j.value.items) :
                         Qualifies(j.value.items[i], one_day_ago).kind = "raise"
             THEN None
             ELSE List(SelectQualifying(j.value.items, one_day_ago))

\* lines 222-234
_send_message(response) ==
    IF response.kind = "raise" THEN None
    ELSE IF raise_for_status(response) THEN None
    ELSE [kind |-> "bool", b |-> TRUE]

(***************************************************************************)
(* Inputs of the orchestrator: what the marketplace, the PR page, the      *)
(* agent and the completion provider can answer.                           *)
(***************************************************************************)
InstanceIds == {"X", "Y"}

Msg(sender, message, timestamp) ==
    [sender |-> sender, message |-> message, timestamp |-> timestamp]

Proposal(id, status, created) ==
    [instance_id |-> id, status |-> status, creation_date |-> created]

\* a resolved instance, with the fields the design's section 3 lists
ResolvedInstance(id) ==
    Dict([status |-> market_resolved_instance_code, id |-> id,
          reward_estimation_id |-> "r1", background |-> <<"fix bug">>])

InstanceBodies(id) ==
    { ResolvedInstance(id),
      Dict([status |-> "open", id |-> id]),
      Dict([status |-> "", id |-> id]),
      Dict([id |-> id]),
      Dict([detail |-> "Instance not found"]),
      List(<<>>),
      NotJson }

InstanceResponses(id) ==
    {Raise("ConnectError")}
    \cup {Http(200, b) : b \in InstanceBodies(id)}
    \cup {Http(500, ResolvedInstance(id)),
          Http(404, Dict([detail |-> "Instance not found"]))}

HandlerChats ==
    { <<Msg("provider", <<"done">>, 1)>>,
      <<Msg("requester", <<"please fix">>, 1), Msg("provider", <<"see ", PR_URL>>, 2)>>,
      <<Msg("provider", <<"see ", PR_URL>>, 2), Msg("requester", <<"thanks">>, 3)>>,
      <<Msg("requester", <<"thanks">>, 2), Msg("provider", <<"see ", PR_URL>>, 1)>>,
      <<[sender |-> "provider", message |-> <<"done">>]>> }

ChatResponses(chats) ==
    {Raise("ReadTimeout")}
    \cup {Http(200, List(c)) : c \in chats \cup {<<>>}}
    \cup {Http(200, Dict([detail |-> "Chat not found"])), Http(200, EmptyDict),
          Http(200, Dict([messages |-> "none"])), Http(200, NotJson),
          Http(404, Dict([detail |-> "Chat not found"])),
          Http(500, List(<<Msg("provider", <<"done">>, 1)>>))}

PrResponses ==
    {Raise("ConnectError"), Http(404, Str(<<"Not Found">>))}
    \cup {Http(200, Str(page)) :
            page \in {<<"<html>">>, <<"<html>", ISSUE_URL>>, <<"<html>", FORK_SPAN>>,
                      <<"<html>", ISSUE_URL, FORK_SPAN>>}}

AgentResults ==
    {Raise("AiderError"), None}
    \cup {Str(t) : t \in {<<>>, <<" ">>, <<SENTINEL>>, <<"Looks fine. ", SENTINEL>>,
                          <<" ", "Rename x.", "\n">>}}

CleanCompletions ==
    {Raise("APIError"), Completion(None)}
    \cup {Completion(Str(t)) :
            t \in {<<SENTINEL>>, <<" ", SENTINEL, "\n">>, <<>>, <<"NO">>,
                   <<"NO_RESPONSE_NEEDED.">>, <<"Nothing new: ", SENTINEL>>,
                   <<"Rename x.">>}}

SendResponses ==
    {Raise("ConnectError"), Http(200, EmptyDict), Http(302, EmptyDict), Http(500, EmptyDict)}

\* creation dates: 25 h, exactly 24 h, 23 h and 1 h before the cycle's start,
\* and 1 h after it
CycleStart == HoursPerDay + 1
CreationDates ==
    {IsoDate(h, FALSE) : h \in {0, 1, 2, CycleStart - 1, CycleStart + 1}}
    \cup {IsoDate(CycleStart - 1, TRUE), Str(<<"yesterday">>)}

Proposals ==
    {Proposal(id, st, d) : id \in InstanceIds,
                           st \in {market_awarded_proposal_code, "pending"},
                           d \in CreationDates}
    \cup {[instance_id |-> id, status |-> market_awarded_proposal_code] : id \in InstanceIds}
    \cup {[instance_id |-> id, creation_date |-> IsoDate(CycleStart - 1, FALSE)] :
            id \in InstanceIds}

RECURSIVE SeqsUpTo(_, _)
SeqsUpTo(S, n) ==
    IF n = 0 THEN {<<>>}
    ELSE LET shorter == SeqsUpTo(S, n - 1)
         IN  shorter \cup {Append(q, x) : q \in shorter, x \in S}

ListingBodies(proposals, n) ==
    {List(q) : q \in SeqsUpTo(proposals, n)}
    \cup {EmptyDict, Dict([detail |-> "Invalid API key"]), NotJson}

ListingResponses(proposals, n) ==
    {Raise("ConnectError"), Http(401, Dict([detail |-> "Invalid API key"])),
     Http(500, List(<<Proposal("X", market_awarded_proposal_code,
                               IsoDate(CycleStart - 1, FALSE))>>)),
     Http(302, List(<<Proposal("X", market_awarded_proposal_code,
                               IsoDate(CycleStart - 1, FALSE))>>))}
    \cup {Http(200, b) : b \in ListingBodies(proposals, n)}

\* the proposals the polling cycle is run on: created an hour before the
\* cycle and at its start, too old, without instance_id, and without
\* creation_date
HandlerProposals ==
    {Proposal("X", market_awarded_proposal_code, IsoDate(CycleStart, FALSE)),
     Proposal("Y", market_awarded_proposal_code, IsoDate(CycleStart - 1, FALSE))}
    \cup {Proposal("X", market_awarded_proposal_code, IsoDate(0, FALSE)),
          [status |-> market_awarded_proposal_code,
           creation_date |-> IsoDate(CycleStart - 1, FALSE)],
          [instance_id |-> "Y", status |-> market_awarded_proposal_code]}

(***************************************************************************)
(* solve_instances_handler, lines 237-259.                                 *)
(***************************************************************************)
NoStep == [kind |-> "nostep"]

\* "not awarded_proposals": None or the empty list
NoProposals(a) == a = None \/ a = List(<<>>)

\* lines 238-244: the handler lists the proposals and enters the loop
StartCycle ==
    /\ pc = "idle"
    /\ \E response \in ListingResponses(HandlerProposals, MaxProposals) :
          LET a == get_awarded_proposals(response, now)
          IN  /\ listing' = response
              /\ awarded_proposals' = a
              /\ pc' = IF NoProposals(a) THEN "done" ELSE "loop"
              /\ idx' = IF NoProposals(a) THEN 0 ELSE 1
    /\ UNCHANGED <<now, outcomes, sent, step, reward_vars, pure_vars>>

\* how an iteration leaves the loop: on to the next proposal, or out of the
\* handler when the list is exhausted or an exception escapes
Continue(outcome, st) ==
    /\ outcomes' = Append(outcomes, outcome)
    /\ step' = st
    /\ idx' = idx + 1
    /\ pc' = IF idx + 1 > Len(awarded_proposals.items) THEN "done" ELSE "loop"

Escape(st) ==
    /\ outcomes' = Append(outcomes, "raised")
    /\ step' = st
    /\ pc' = "raised"
    /\ UNCHANGED <<idx, sent>>

\* response.status_code, 0 when the request raised or was not made
StatusCode(response) == IF response.kind = "http" THEN response.code ELSE 0

StepRecord(ir, cr, its, chat_fetched, solved, message, send) ==
    [kind |-> "step", instance_status |-> StatusCode(ir), chat_status |-> StatusCode(cr),
     instance_to_solve |-> its, chat_fetched |-> chat_fetched,
     solved |-> solved, message |-> message, send |-> send]

NotSolved == [ret |-> NoCall, agent_called |-> FALSE, clean_called |-> FALSE]

\* The answer of a collaborator is drawn only when the code calls it: the
\* chat endpoint after the instance was accepted (line 42), the PR page
\* after a PR link was found in the transcript (line 140), the agent once
\* the command is built (line 169), the de-duplication completion once the
\* agent's text passed lines 170-176 (line 178).
ChatAnswers(ir) ==
    IF _get_instance_to_solve(ir, Raise("ReadTimeout")).chat_fetched
    THEN ChatResponses(HandlerChats)
    ELSE {NoCall}

PrAnswers(its) ==
    IF Enrichment(its.messages_history, Raise("ConnectError")).pr_fetched
    THEN PrResponses
    ELSE {NoCall}

AgentAnswers(its, pr) ==
    IF _solve_instance(its, pr, Raise("AiderError"), Raise("APIError")).agent_called
    THEN AgentResults
    ELSE {NoCall}

CleanAnswers(its, pr, ar) ==
    IF _solve_instance(its, pr, ar, Raise("APIError")).clean_called
    THEN CleanCompletions
    ELSE {NoCall}

\* a variant of the gate that lets every resolved instance through
ProviderNeedsResponse_ungated(instance_to_solve) == TRUE

\* lines 251-252: the gate on the record's provider_needs_response
ProviderNeedsResponse(instance_to_solve) == instance_to_solve.provider_needs_response

\* lines 246-259: one iteration of the loop
ProcessProposal ==
    /\ pc = "loop"
    /\ LET p == awarded_proposals.items[idx]
       IN  IF "instance_id" \notin DOMAIN p                        \* line 247
           THEN Escape(StepRecord(NoCall, NoCall, NoCall, FALSE, NotSolved, NoCall, NoCall))
           ELSE
           \E ir \in InstanceResponses(p.instance_id) : \E cr \in ChatAnswers(ir) :
             LET r == _get_instance_to_solve(ir, cr)
                 its == r.ret
             IN  IF its = None                                      \* line 248
                 THEN /\ Continue("skipped",
                                  StepRecord(ir, cr, its, r.chat_fetched, NotSolved, NoCall,
                                             NoCall))
                      /\ UNCHANGED sent
                 ELSE IF ~ProviderNeedsResponse(its)                \* line 251
                 THEN /\ Continue("skipped",
                                  StepRecord(ir, cr, its, r.chat_fetched, NotSolved, NoCall,
                                             NoCall))
                      /\ UNCHANGED sent
                 ELSE
                 \E pr \in PrAnswers(its) : \E ar \in AgentAnswers(its, pr) :
                 \E cc \in CleanAnswers(its, pr, ar) :
                   LET solved == _solve_instance(its, pr, ar, cc)   \* line 254
                       message == solved.ret.value
                   IN  IF solved.ret.kind = "raise"
                       THEN Escape(StepRecord(ir, cr, its, r.chat_fetched, solved, NoCall, NoCall))
                       ELSE IF ~Truthy(message)                     \* line 255
                       THEN /\ Continue("skipped",
                                        StepRecord(ir, cr, its, r.chat_fetched, solved, message,
                                                   NoCall))
                            /\ UNCHANGED sent
                       ELSE
                       \E sr \in SendResponses :                    \* line 258
                         LET ok == _send_message(sr)
                         IN  IF ok = None
                             THEN /\ Continue("send_failed",
                                              StepRecord(ir, cr, its, r.chat_fetched, solved,
                                                         message, sr))
                                  /\ UNCHANGED sent
                             ELSE /\ Continue("responded",
                                              StepRecord(ir, cr, its, r.chat_fetched, solved,
                                                         message, sr))
                                  /\ sent' = Append(sent,
                                                    [instance_id |-> its.instance.d.id,
                                                     message |-> message])
    /\ UNCHANGED <<now, listing, awarded_proposals, reward_vars, pure_vars>>

(***************************************************************************)
(* _get_instance_to_solve and get_awarded_proposals on inputs of their     *)
(* own: transcripts of up to MaxTail messages, alone or after PadLengths   *)
(* earlier messages, and listings of up to MaxProposals proposals.         *)
(***************************************************************************)
TailMsgs ==
    {Msg(sm[1], sm[2], t) :
        sm \in {<<"provider", <<"a">>>>, <<"provider", <<"b">>>>, <<"requester", <<"b">>>>},
        t \in 1..3}

Pad(n) == [i \in 1..n |-> Msg(IF i % 2 = 0 THEN "provider" ELSE "requester", <<"pad">>, 2)]

PadLengths == {0, MaxTurns - 2, MaxTurns - 1}

ResolveChats == {Pad(n) \o tail : n \in PadLengths, tail \in SeqsUpTo(TailMsgs, MaxTail)}

Resolve ==
    /\ rs_out = NoCall
    /\ rs_out' = _get_instance_to_solve(rs_in.inst, rs_in.chat).ret
    /\ rs_chat_fetched' = _get_instance_to_solve(rs_in.inst, rs_in.chat).chat_fetched
    /\ UNCHANGED <<now, rs_in, gp_in, gp_out, si_in, si_out, reward_vars, handler_vars>>

ListProposals ==
    /\ gp_out = NoCall
    /\ gp_out' = get_awarded_proposals(gp_in, now)
    /\ UNCHANGED <<now, gp_in, rs_in, rs_out, rs_chat_fetched, si_in, si_out,
                    reward_vars, handler_vars>>

\* the records the handler passes to _solve_instance: a resolved instance
\* whose transcript ends with a message of the provider
SolveRecords ==
    {r \in {_get_instance_to_solve(Http(200, ResolvedInstance("X")), Http(200, List(c))).ret :
                c \in HandlerChats} :
        r # None /\ r.provider_needs_response}

SolveAgentResults == AgentResults \cup {Str(<<"NO_RESPONSE">>), Str(<<"Rename x.">>)}

Solve ==
    /\ si_out = NoCall
    /\ si_out' = _solve_instance(si_in.instance_to_solve, si_in.pr_response,
                                 si_in.agent_result, si_in.clean_completion)
    /\ UNCHANGED <<now, si_in, rs_in, rs_out, rs_chat_fetched, gp_in, gp_out,
                    reward_vars, handler_vars>>

(***************************************************************************)
(* Specifications.                                                         *)
(***************************************************************************)
\* the state after import, before any call: nothing cached, nothing called
Init ==
    /\ now = CycleStart
    /\ cache = {}
    /\ got = NoGet
    /\ er_call = [kind |-> "nocall", n |-> 0]
    /\ er_ret = NoCall
    /\ er_prompt = None
    /\ er_completion = NoCall
    /\ provider_calls = 0
    /\ pc = "idle"
    /\ listing = NoCall
    /\ awarded_proposals = None
    /\ idx = 0
    /\ outcomes = <<>>
    /\ sent = <<>>
    /\ step = NoStep
    /\ rs_in = NoCall
    /\ rs_out = NoCall
    /\ rs_chat_fetched = FALSE
    /\ gp_in = NoCall
    /\ gp_out = NoCall
    /\ si_in = NoCall
    /\ si_out = NoCall

\* the same state, with the clock at 0
InitReward ==
    /\ now = 0
    /\ cache = {}
    /\ got = NoGet
    /\ er_call = [kind |-> "nocall", n |-> 0]
    /\ er_ret = NoCall
    /\ er_prompt = None
    /\ er_completion = NoCall
    /\ provider_calls = 0
    /\ pc = "idle"
    /\ listing = NoCall
    /\ awarded_proposals = None
    /\ idx = 0
    /\ outcomes = <<>>
    /\ sent = <<>>
    /\ step = NoStep
    /\ rs_in = NoCall
    /\ rs_out = NoCall
    /\ rs_chat_fetched = FALSE
    /\ gp_in = NoCall
    /\ gp_out = NoCall
    /\ si_in = NoCall
    /\ si_out = NoCall

\* the same state, with the responses _get_instance_to_solve will be given
InitResolve ==
    /\ now = CycleStart
    /\ cache = {}
    /\ got = NoGet
    /\ er_call = [kind |-> "nocall", n |-> 0]
    /\ er_ret = NoCall
    /\ er_prompt = None
    /\ er_completion = NoCall
    /\ provider_calls = 0
    /\ pc = "idle"
    /\ listing = NoCall
    /\ awarded_proposals = None
    /\ idx = 0
    /\ outcomes = <<>>
    /\ sent = <<>>
    /\ step = NoStep
    /\ rs_in \in [inst : {Http(200, ResolvedInstance("X"))},
                  chat : ChatResponses(ResolveChats)]
               \cup [inst : InstanceResponses("X"), chat : ChatResponses(HandlerChats)]
    /\ rs_out = NoCall
    /\ rs_chat_fetched = FALSE
    /\ gp_in = NoCall
    /\ gp_out = NoCall
    /\ si_in = NoCall
    /\ si_out = NoCall

\* the same state, with the listing get_awarded_proposals will be given
InitProposals ==
    /\ now = CycleStart
    /\ cache = {}
    /\ got = NoGet
    /\ er_call = [kind |-> "nocall", n |-> 0]
    /\ er_ret = NoCall
    /\ er_prompt = None
    /\ er_completion = NoCall
    /\ provider_calls = 0
    /\ pc = "idle"
    /\ listing = NoCall
    /\ awarded_proposals = None
    /\ idx = 0
    /\ outcomes = <<>>
    /\ sent = <<>>
    /\ step = NoStep
    /\ rs_in = NoCall
    /\ rs_out = NoCall
    /\ rs_chat_fetched = FALSE
    /\ gp_in \in ListingResponses(Proposals, MaxProposals)
    /\ gp_out = NoCall
    /\ si_in = NoCall
    /\ si_out = NoCall

\* the same state, with the record _solve_instance will be given and the
\* answers its collaborators will give
InitSolve ==
    /\ now = CycleStart
    /\ cache = {}
    /\ got = NoGet
    /\ er_call = [kind |-> "nocall", n |-> 0]
    /\ er_ret = NoCall
    /\ er_prompt = None
    /\ er_completion = NoCall
    /\ provider_calls = 0
    /\ pc = "idle"
    /\ listing = NoCall
    /\ awarded_proposals = None
    /\ idx = 0
    /\ outcomes = <<>>
    /\ sent = <<>>
    /\ step = NoStep
    /\ rs_in = NoCall
    /\ rs_out = NoCall
    /\ rs_chat_fetched = FALSE
    /\ gp_in = NoCall
    /\ gp_out = NoCall
    /\ si_in \in [instance_to_solve : SolveRecords, pr_response : PrResponses,
                  agent_result : SolveAgentResults,
                  clean_completion : CleanCompletions]
    /\ si_out = NoCall

\* the instance resolver on every transcript of ResolveChats
SpecResolve == InitResolve /\ [][Resolve]_vars

\* the proposal listing on every listing of Proposals
SpecProposals == InitProposals /\ [][ListProposals]_vars

\* the responder on every record of SolveRecords and every answer of the PR
\* page, the agent and the de-duplication completion
SpecSolve == InitSolve /\ [][Solve]_vars

\* the Response Cache over time
CacheNext ==
    \/ Tick
    \/ CacheStore
    \/ CacheGet
    \/ CacheCleanupExpired
    \/ CacheClear

SpecCache == InitReward /\ [][CacheNext]_vars

\* the reward estimator, called while other clients store into and clear
\* the Response Cache
RewardNext ==
    \/ CacheStore
    \/ CacheClear
    \/ EstimateReward

SpecReward == InitReward /\ [][RewardNext]_vars

\* one polling cycle of the orchestrator
HandlerNext == StartCycle \/ ProcessProposal

Spec == Init /\ [][HandlerNext]_vars

(***************************************************************************)
(* Properties.                                                             *)
(***************************************************************************)
CycleEnded == pc \in {"done", "raised"}
WellFormed(a) == \A i \in 1..Len(a.items) : "instance_id" \in DOMAIN a.items[i]

\* C1: when a polling cycle that listed proposals ends, the loop has taken
\* up every proposal of the list: a failure while resolving, answering or
\* sending for one proposal has not kept a later one from being processed.
C1_EveryProposalProcessed ==
    (CycleEnded /\ ~NoProposals(awarded_proposals) /\ WellFormed(awarded_proposals)) =>
        Len(outcomes) = Len(awarded_proposals.items)

\* the default of max_credit_per_instance (1.0), in tenths
DefaultMaxCredit == 10

Called == er_call.kind = "call"
ProviderAnswered == Called /\ er_completion.kind = "completion" /\ er_completion.content # None
Numeric(content) == float(content).kind = "return"

\* C2: whenever the provider answered a call of estimate_reward with a
\* number, the call returned a reward between 0 and the maximum credit
\* (the default maximum, for a call that names none).
C2_RewardWithinBounds ==
    (ProviderAnswered /\ Numeric(er_completion.content)) =>
        /\ er_ret.kind = "return"
        /\ er_ret.value.kind = "float"
        /\ 0 <= er_ret.value.v /\ er_ret.value.v <= DefaultMaxCredit

\* C3: whenever the provider answered a call of estimate_reward with text
\* that is no number, the call returned the reward 0.0.
C3_UnparseableGivesZero ==
    (ProviderAnswered /\ ~Numeric(er_completion.content)) => er_ret = Return(Float(0))

\* C4: a call of estimate_reward never raises, and a call whose completion
\* request raised returns 0.
C4_NeverRaisesFailureGivesZero ==
    Called =>
        /\ er_ret.kind # "raise"
        /\ (er_completion.kind = "raise" => er_ret = Return(Float(0)))

SameInputs(c1, c2) ==
    /\ c1.background = c2.background
    /\ c1.chat_messages = c2.chat_messages
    /\ c1.max_given = c2.max_given

\* C5: a call of estimate_reward that follows, within the TTL, a call with
\* the same inputs that returned a reward, returns that same reward and
\* makes no completion call.
C5_RepeatServedFromCache ==
    [][(/\ er_call.kind = "call"
        /\ er_call'.n = er_call.n + 1
        /\ SameInputs(er_call, er_call')
        /\ er_ret.kind = "return" /\ er_ret.value.kind = "float"
        /\ er_call'.at - er_call.at < TTL)
       => (er_ret' = er_ret /\ provider_calls' = provider_calls)]_vars

Poisoned(c, prompt) == \E e \in c : e.prompt = prompt /\ ~Numeric(e.response)

\* C6: a call of estimate_reward made while the cache holds, for the call's
\* prompt, an entry that is no number leaves the cache without any of the
\* entries it held and makes a completion call.
C6_PoisonedCacheCleared ==
    [][(/\ er_call'.n = er_call.n + 1
        /\ ~er_call'.max_given
        /\ Poisoned(cache, er_prompt'))
       => (cache' \cap cache = {} /\ provider_calls' = provider_calls + 1)]_vars

\* C7: a lookup never returns an entry more than TTL after the entry was
\* stored.
C7_ExpiredNeverReturned ==
    got.kind = "hit" => got.at - got.created_at <= TTL

\* a lookup made more than TTL after the store missed although the entry
\* was still in the store
C7_Witness ==
    /\ got.kind = "miss" /\ got.at = now
    /\ \E e \in cache : e.prompt = got.prompt /\ now - e.created_at > TTL

Resolved == rs_out # NoCall /\ rs_out # None /\ rs_out.messages_history # None
Transcript == rs_in.chat.body.items

\* the message with the greatest timestamp, the last of them in the order
\* the marketplace returned
Latest(chat) ==
    chat[CHOOSE i \in 1..Len(chat) :
            /\ \A j \in 1..Len(chat) : chat[j].timestamp <= chat[i].timestamp
            /\ \A j \in (i + 1)..Len(chat) : chat[j].timestamp < chat[i].timestamp]

\* C8: the record built from a non-empty transcript has
\* provider_needs_response exactly when the latest message was sent by
\* "provider" and the transcript has fewer than 15 messages.
C8_TurnCapGate ==
    Resolved =>
        (rs_out.provider_needs_response <=>
            (Latest(Transcript).sender = "provider" /\ Len(Transcript) < 15))

\* a transcript of exactly 15 messages whose latest message is the
\* provider's, resolved to a record that needs no response
C8_Witness ==
    /\ Resolved
    /\ Len(Transcript) = 15
    /\ Latest(Transcript).sender = "provider"
    /\ ~rs_out.provider_needs_response

\* the messages of chat by ascending timestamp, those of equal timestamp in
\* the order of chat
RECURSIVE ByTimestamp(_, _)
ByTimestamp(chat, stamps) ==
    IF stamps = {} THEN <<>>
    ELSE LET t == CHOOSE x \in stamps : \A y \in stamps : x <= y
         IN  SelectSeq(chat, LAMBDA m : m.timestamp = t) \o ByTimestamp(chat, stamps \ {t})

\* the transcript text of an ordered list of messages: "sender: message"
\* for each, two newlines between them
RECURSIVE Rendered(_)
Rendered(ordered) ==
    IF ordered = <<>> THEN <<>>
    ELSE LET m == ordered[Len(ordered)]
             before == Rendered(SubSeq(ordered, 1, Len(ordered) - 1))
         IN  (IF before = <<>> THEN <<>> ELSE before \o <<"\n\n">>)
             \o <<m.sender>> \o <<": ">> \o m.message

\* C9: messages_history lists the messages by ascending timestamp, those
\* of equal timestamp in the order received, each as "sender: message".
C9_TranscriptOrdered ==
    Resolved =>
        rs_out.messages_history =
            Str(Rendered(ByTimestamp(Transcript,
                                     {Transcript[i].timestamp : i \in 1..Len(Transcript)})))

\* a transcript received with timestamps 3, 1, 2, rendered in the order
\* 1, 2, 3
C9_Witness ==
    /\ Resolved
    /\ Len(Transcript) = 3
    /\ Transcript[1].timestamp = 3 /\ Transcript[2].timestamp = 1
    /\ Transcript[3].timestamp = 2
    /\ rs_out.messages_history =
           Str(Rendered(<<Transcript[2], Transcript[3], Transcript[1]>>))

Listed == gp_out # NoCall /\ gp_out # None
AllProposals == IF gp_in.body = EmptyDict THEN <<>> ELSE gp_in.body.items
AwardedWithinDay(p) ==
    /\ p.status = market_awarded_proposal_code
    /\ now - p.creation_date.h < 24

\* C10: a listing that succeeds returns exactly the proposals whose status
\* is the awarded code and whose creation date is less than 24 hours
\* before the current time, in the order listed.
C10_AwardedWithinLastDay ==
    Listed => gp_out = List(SelectSeq(AllProposals, AwardedWithinDay))

\* a listing with an awarded proposal created 25 hours ago and an awarded
\* proposal created 1 hour ago, of which only the second is returned
C10_Witness ==
    /\ Listed
    /\ Len(AllProposals) = 2
    /\ AllProposals[1] = Proposal("X", market_awarded_proposal_code, IsoDate(now - 25, FALSE))
    /\ AllProposals[2] = Proposal("Y", market_awarded_proposal_code, IsoDate(now - 1, FALSE))
    /\ gp_out = List(<<AllProposals[2]>>)

Iteration == step.kind = "step"
ResolvedRecord == Iteration /\ step.instance_to_solve.kind = "InstanceToSolve"
ResponderInvoked == Iteration /\ step.solved # NotSolved
SendAttempted == Iteration /\ step.send # NoCall

\* C11: an iteration of the polling loop calls the send endpoint only when
\* the instance resolved to a record with provider_needs_response set and the
\* responder returned a non-empty message; it does not invoke the responder
\* for a record whose provider_needs_response is not set, and neither
\* invokes the responder nor sends for a record with no transcript.
C11_SendGated ==
    /\ SendAttempted =>
          /\ ResolvedRecord
          /\ step.instance_to_solve.provider_needs_response
          /\ step.solved.ret.kind = "return"
          /\ step.message = step.solved.ret.value
          /\ step.message.kind = "str" /\ step.message.s # <<>>
    /\ (ResolvedRecord /\ ~step.instance_to_solve.provider_needs_response) =>
          (~ResponderInvoked /\ ~SendAttempted)
    /\ (ResolvedRecord /\ step.instance_to_solve.messages_history = None) =>
          (~ResponderInvoked /\ ~SendAttempted)
    /\ Len(sent) <= Len(SelectSeq(outcomes, LAMBDA o : o = "responded"))

\* an iteration that sent the responder's message for a record that needed
\* a response, after an iteration that resolved a record needing none and
\* left the responder alone
C11_Witness ==
    /\ SendAttempted
    /\ step.instance_to_solve.provider_needs_response
    /\ step.send = Http(200, EmptyDict)
    /\ Len(sent) = 1 /\ sent[1].message = step.message
    /\ outcomes = <<"skipped", "responded">>

\* the proposal the last iteration took up
Processed == awarded_proposals.items[Len(outcomes)]

\* the last iteration took up a proposal created now whose instance is
\* resolved, carries a reward_estimation_id and has an empty chat
RewardScenario ==
    /\ ResolvedRecord
    /\ Processed.creation_date = IsoDate(now, FALSE)
    /\ "reward_estimation_id" \in Keys(step.instance_to_solve.instance)
    /\ step.instance_to_solve.messages_history = None

\* the text of a reward, as float() reads it back
FloatText(x) ==
    CASE x = Float(5)   -> "0.5"
      [] x = Float(7)   -> "0.7"
      [] x = Float(25)  -> "2.5"
      [] x = Float(-10) -> "-1.0"
      [] OTHER          -> "nan"

\* C12: an iteration that took up an awarded proposal created now, whose
\* instance is resolved, has a reward_estimation_id and an empty chat, has
\* computed a reward with estimate_reward and has sent a message that holds
\* the value computed (the value it would then report as the reward).
C12_RewardFlowEndToEnd ==
    RewardScenario =>
        /\ er_call.kind = "call"
        /\ er_ret.kind = "return"
        /\ SendAttempted
        /\ step.message.kind = "str"
        /\ \E i \in 1..Len(step.message.s) : step.message.s[i] = FloatText(er_ret.value)

\* C13: a call of _solve_instance does not raise and delegates to the
\* code-modification agent, whether or not the transcript holds a
\* pull-request link, the PR page could be fetched, and the page holds an
\* issue link and fork information.
C13_EnrichmentBestEffort ==
    ResponderInvoked =>
        /\ step.solved.ret.kind = "return"
        /\ step.solved.agent_called

\* an HTTP answer whose status is not 2xx
NonSuccess(code) == code # 0 /\ ~(200 <= code /\ code < 300)

LastOutcome == outcomes[Len(outcomes)]

\* C14: a non-2xx answer to a marketplace call is a failure of that step:
\* a non-2xx listing yields no proposals, a non-2xx answer to the instance
\* or the chat request yields no record for the instance, and a non-2xx
\* answer to the send request does not count as a message sent.
C14_NonSuccessIsFailure ==
    /\ NonSuccess(StatusCode(listing)) => awarded_proposals = None
    /\ (Iteration /\ NonSuccess(step.instance_status)) => ~ResolvedRecord
    /\ (Iteration /\ NonSuccess(step.chat_status)) => ~ResolvedRecord
    /\ (SendAttempted /\ NonSuccess(StatusCode(step.send))) => LastOutcome = "send_failed"

\* filtering p raises: no status, or awarded with no creation date or with
\* one that cannot be compared with the naive current time
Unfilterable(p) ==
    \/ "status" \notin DOMAIN p
    \/ /\ p.status = market_awarded_proposal_code
       /\ \/ "creation_date" \notin DOMAIN p
          \/ p.creation_date.kind # "isodate"
          \/ p.creation_date.aware

\* the listing request raised, was answered with a non-2xx status or with
\* a body that is no JSON, or holds a proposal whose filtering raises
ListingFailed ==
    /\ listing # NoCall
    /\ \/ listing.kind = "raise"
       \/ NonSuccess(StatusCode(listing))
       \/ listing.body = NotJson
       \/ /\ listing.body.kind = "list"
          /\ \E i \in 1..Len(listing.body.items) : Unfilterable(listing.body.items[i])

\* C15: when listing the proposals failed, get_awarded_proposals returned
\* None and the cycle ended at once: no instance was resolved and no message
\* was sent, also when the listing held proposals that could be filtered.
C15_ListingFailureAbortsCycle ==
    ListingFailed =>
        /\ awarded_proposals = None
        /\ pc = "done"
        /\ step = NoStep /\ outcomes = <<>> /\ sent = <<>>

\* a listing answered 200 that holds an awarded proposal created now and
\* an awarded proposal without creation date, after which the cycle ended
\* without an iteration
C15_Witness ==
    /\ ListingFailed
    /\ listing.kind = "http" /\ listing.code = 200
    /\ listing.body.kind = "list" /\ Len(listing.body.items) = 2
    /\ listing.body.items[1] = Proposal("X", market_awarded_proposal_code,
                                        IsoDate(now, FALSE))
    /\ Unfilterable(listing.body.items[2])
    /\ pc = "done" /\ step = NoStep

ResolverReturned == rs_out # NoCall

\* the body of the instance answer is an object whose status is the
\* resolved code
StatusResolved(response) ==
    /\ response.kind = "http"
    /\ response.body.kind = "dict"
    /\ "status" \in Keys(response.body)
    /\ response.body.d.status = market_resolved_instance_code

\* the body of the chat answer is an object with a "detail" field
ErrorObject(response) ==
    /\ response.kind = "http"
    /\ response.body.kind = "dict"
    /\ "detail" \in Keys(response.body)

\* C16: _get_instance_to_solve returns None or a record, never raises; it
\* returns a record, holding the instance fetched, only when the instance's
\* status is the resolved code and the chat payload is JSON and no error
\* object; when the status is wrong or missing it returns None without
\* requesting the chat; when a request raised or a body is no JSON it
\* returns None.
C16_ResolverFailClosed ==
    ResolverReturned =>
        /\ rs_out.kind \in {"None", "InstanceToSolve"}
        /\ rs_out.kind = "InstanceToSolve" =>
              /\ StatusResolved(rs_in.inst)
              /\ rs_out.instance = rs_in.inst.body
              /\ rs_chat_fetched
              /\ rs_in.chat.kind = "http"
              /\ rs_in.chat.body # NotJson
              /\ ~ErrorObject(rs_in.chat)
        /\ ~StatusResolved(rs_in.inst) => (rs_out = None /\ ~rs_chat_fetched)
        /\ (StatusResolved(rs_in.inst) /\ ErrorObject(rs_in.chat)) =>
              (rs_out = None /\ rs_chat_fetched)

\* an instance whose status is "open", resolved to nothing without a chat
\* request
C16_Witness ==
    /\ ResolverReturned
    /\ rs_in.inst = Http(200, Dict([status |-> "open", id |-> "X"]))
    /\ rs_out = None
    /\ ~rs_chat_fetched

SolveReturned == si_out # NoCall
CleanFailed == SolveReturned /\ si_out.clean_called /\ si_in.clean_completion.kind = "raise"

\* C17: when the de-duplication completion call raised, _solve_instance
\* returns the agent's response (stripped of surrounding whitespace, and
\* not blank) as it was before the clean-up.
C17_CleanFailureGivesRaw ==
    (CleanFailed /\ strip(si_in.agent_result).s # <<>>) =>
        si_out.ret = Return(strip(si_in.agent_result))

\* the text holds the characters NO_RESPONSE_NEEDED
HoldsSentinel(x) ==
    /\ x.kind = "str"
    /\ \E i \in 1..Len(x.s) : x.s[i] \in {"NO_RESPONSE_NEEDED", "NO_RESPONSE_NEEDED."}

AgentReturned == SolveReturned /\ si_out.agent_called /\ si_in.agent_result.kind # "raise"

\* C18: when the agent returned None, the empty string or text that holds
\* the sentinel, _solve_instance returns None and has not made the
\* de-duplication completion call.
C18_NoResponseSkipsCleanUp ==
    (/\ AgentReturned
     /\ \/ si_in.agent_result = None
        \/ si_in.agent_result = Str(<<>>)
        \/ HoldsSentinel(si_in.agent_result))
    => (si_out.ret = Return(None) /\ ~si_out.clean_called)

\* the agent answered with a remark followed by the sentinel, and the
\* responder returned None without a de-duplication call
C18_Witness ==
    /\ AgentReturned
    /\ si_in.agent_result = Str(<<"Looks fine. ", "NO_RESPONSE_NEEDED">>)
    /\ si_out.ret = Return(None)
    /\ ~si_out.clean_called

\* the step is a two-argument call of estimate_reward that the provider
\* answered with text that is no number
ParseFailureStep ==
    /\ er_call'.n = er_call.n + 1
    /\ ~er_call'.max_given
    /\ er_completion'.kind = "completion"
    /\ er_completion'.content # None
    /\ ~Numeric(er_completion'.content)

\* the last call was answered with text that is no number
ParseFailed == ProviderAnswered /\ ~er_call.max_given /\ ~Numeric(er_completion.content)

\* C19: a call of estimate_reward whose answer cannot be parsed as a number
\* leaves the cache as it was, and the next call with the same inputs makes
\* a completion call.
C19_ParseFailureNotCached ==
    [][/\ ParseFailureStep => cache' = cache
       /\ (ParseFailed /\ er_call'.n = er_call.n + 1 /\ SameInputs(er_call, er_call'))
             => provider_calls' = provider_calls + 1]_vars

\* two calls, each answered by the provider, the second with text that is
\* no number, after which the cache holds no entry for the prompt
C19_Witness ==
    /\ ParseFailed
    /\ er_call.n = 2 /\ provider_calls = 2
    /\ er_completion.content = Str(<<"abc">>)
    /\ \A e \in cache : e.prompt # er_prompt

\* a message to send: not empty and without the sentinel
Sendable(x) == x.kind = "str" /\ x.s # <<>> /\ ~HoldsSentinel(x)

\* C20: a message returned by _solve_instance is not empty and does not
\* hold the sentinel NO_RESPONSE_NEEDED, and so is every message the handler
\* has sent.
C20_MessageWithoutSentinel ==
    /\ (ResponderInvoked /\ step.solved.ret.kind = "return"
           /\ step.solved.ret.value # None)
          => Sendable(step.solved.ret.value)
    /\ \A i \in 1..Len(sent) : Sendable(sent[i].message)

====
